---- MODULE Spec2Model ----
(***************************************************************************)
(* Model of check_nameservers_are_in_sync_for_zone.py: one run of          *)
(* check_soas_equal_for_domain, stepping through its calls to              *)
(* check_output (the dig subprocess).                                      *)
(*                                                                         *)
(* A Python string is a sequence of tokens; a token stands for one         *)
(* character or for a run of characters that no operation of the program   *)
(* splits ("nsc1", "2014090302").  The tokens " ", "\n", "." and "'" are   *)
(* the single characters the program's strip, split, rstrip and repr look  *)
(* at.                                                                     *)
(***************************************************************************)
EXTENDS Naturals, Sequences, FiniteSets

VARIABLES
    domain_name,                  \* argument of check_soas_equal_for_domain
    warning_minimum_nameservers,  \* argument
    critical_minimum_nameservers, \* argument
    hidden_primaries,             \* argument
    pc,                           \* position in check_soas_equal_for_domain
    nameservers,                  \* local, line 94
    all_nameservers,              \* local, line 98
    soa_records,                  \* local, line 99, as far as map() has got
    commands,                     \* every command handed to check_output, in order
    soa_outcomes,                 \* what check_output did on each SOA command, in order
    error,                        \* the exception bound at line 105, or the one that escaped
    result                        \* the returned (status, message) pair

vars == <<domain_name, warning_minimum_nameservers, critical_minimum_nameservers,
          hidden_primaries, pc, nameservers, all_nameservers, soa_records,
          commands, soa_outcomes, error, result>>

-----------------------------------------------------------------------------
(* Bounds of the model *)

MaxNameservers == 2
MaxHidden == 1
MaxThreshold == 2

SeqsUpTo(S, n) == UNION {[1..k -> S] : k \in 0..n}

Domains == {<<"yeepa", ".", "de">>, <<"example", ".", "com">>}
AdvertisedHosts == {<<"nsc1", ".", "de">>, <<"nsb1", ".", "de">>}
\* The hidden primary is advertised in some runs and not in others.
HiddenHosts == {<<"nsb1", ".", "de">>}
Soa1 == <<"nsa1.de.", " ", "2014090302">>
Soa2 == <<"nsa1.de.", " ", "2014090303">>

-----------------------------------------------------------------------------
(* Python string and list operations used by the program *)

Whitespace == {" ", "\n", "\t"}

RECURSIVE LStrip(_)
LStrip(s) ==
    IF s # <<>> /\ Head(s) \in Whitespace THEN LStrip(Tail(s)) ELSE s

RECURSIVE RStrip(_, _)
RStrip(s, chars) ==
    IF s # <<>> /\ s[Len(s)] \in chars
    THEN RStrip(SubSeq(s, 1, Len(s) - 1), chars)
    ELSE s

Strip(s) == RStrip(LStrip(s), Whitespace)

RECURSIVE Split(_, _)
Split(s, sep) ==
    IF \E i \in 1..Len(s) : s[i] = sep
    THEN LET i == CHOOSE j \in 1..Len(s) :
                      s[j] = sep /\ \A k \in 1..(j - 1) : s[k] # sep
         IN  <<SubSeq(s, 1, i - 1)>> \o Split(SubSeq(s, i + 1, Len(s)), sep)
    ELSE <<s>>

RECURSIVE Join(_, _)
Join(parts, sep) ==
    IF parts = <<>> THEN <<>>
    ELSE IF Len(parts) = 1 THEN parts[1]
    ELSE parts[1] \o sep \o Join(Tail(parts), sep)

ReprChar(c) == IF c = "\n" THEN "\\n" ELSE IF c = "\t" THEN "\\t" ELSE c

ReprStr(s) == <<"'">> \o [i \in 1..Len(s) |-> ReprChar(s[i])] \o <<"'">>

ReprList(l) ==
    <<"[">> \o Join([i \in 1..Len(l) |-> ReprStr(l[i])], <<", ">>) \o <<"]">>

Digit(n) == <<"0", "1", "2", "3", "4", "5", "6", "7", "8", "9">>[n + 1]

RECURSIVE FormatD(_)
FormatD(n) ==
    IF n < 10 THEN <<Digit(n)>> ELSE FormatD(n \div 10) \o <<Digit(n % 10)>>

-----------------------------------------------------------------------------
(* Exceptions *)

\* The arguments of an exception are integers, strings or lists of strings.
PyInt(n) == [kind |-> "int", int |-> n, str |-> <<>>, list |-> <<>>]
PyStr(s) == [kind |-> "str", int |-> 0, str |-> s, list |-> <<>>]
PyList(l) == [kind |-> "list", int |-> 0, str |-> <<>>, list |-> l]

ReprValue(v) ==
    IF v.kind = "int" THEN FormatD(v.int)
    ELSE IF v.kind = "str" THEN ReprStr(v.str)
    ELSE ReprList(v.list)

ReprTuple(t) ==
    IF Len(t) = 1 THEN <<"(">> \o ReprValue(t[1]) \o <<",)">>
    ELSE <<"(">> \o Join([i \in 1..Len(t) |-> ReprValue(t[i])], <<", ">>) \o <<")">>

NoError == [cls |-> "None", args |-> <<>>]

\* raise subprocess.CalledProcessError(process.returncode, command), line 68
DigExitCode == 9
CalledProcessError(returncode, command) ==
    [cls |-> "CalledProcessError", args |-> <<PyInt(returncode), PyList(command)>>]

\* subprocess.Popen cannot start dig, line 63
ENOENT == 2
OSError == [cls |-> "OSError",
            args |-> <<PyInt(ENOENT), PyStr(<<"No such file or directory">>)>>]

\* what the stub of test_should_catch_unexpected_errors raises, line 266
AssertionError == [cls |-> "AssertionError", args |-> <<PyStr(<<"fnord">>)>>]

\* repr() of an exception: the class name and the tuple of its arguments
ReprError(e) == <<e.cls>> \o ReprTuple(e.args)

\* CalledProcessError, OSError and AssertionError all derive from Exception
IsInstance(e, cls) ==
    /\ e # NoError
    /\ \/ e.cls = cls
       \/ cls = "Exception" /\ e.cls \in {"CalledProcessError", "OSError", "AssertionError"}

-----------------------------------------------------------------------------
(* NAGIOS *)

OK == <<0, "OK">>
WARNING == <<1, "WARNING">>
CRITICAL == <<2, "CRITICAL">>
UNKNOWN == <<3, "UNKNOWN">>

NoResult == <<>>

-----------------------------------------------------------------------------
(* check_output: what the dig subprocess can do *)

NsCommand(domain) == <<<<"dig">>, <<"+short">>, <<"NS">>, domain>>

SoaCommand(domain, dns_server_name) ==
    <<<<"dig">>, <<"+short">>, <<"SOA">>, domain, <<"@">> \o dns_server_name>>

\* dig +short NS: one line per nameserver, with or without the trailing dot,
\* with or without a final newline.
DigNSLines == {h \o d : h \in AdvertisedHosts, d \in {<<>>, <<".">>}}

DigNSOutputs ==
    {Join(lines, <<"\n">>) \o nl :
        lines \in SeqsUpTo(DigNSLines, MaxNameservers), nl \in {<<>>, <<"\n">>}}

\* dig +short SOA: nothing, a blank line, or one record and its newline.
DigSOAOutputs == {<<>>, <<"\n">>, Soa1 \o <<"\n">>, Soa2 \o <<"\n">>}

DigOutputs(command) ==
    IF command[3] = <<"NS">> THEN DigNSOutputs ELSE DigSOAOutputs

CheckOutput(command) ==
    {[raised |-> NoError, output |-> o] : o \in DigOutputs(command)}
        \cup {[raised |-> e, output |-> <<>>] :
                 e \in {CalledProcessError(DigExitCode, command), OSError, AssertionError}}

-----------------------------------------------------------------------------
(* The functions of the program *)

NameserversForDomain(output) ==
    IF output = <<>> THEN <<>>
    ELSE LET lines == Split(Strip(output), "\n")
         IN  [i \in 1..Len(lines) |-> RStrip(lines[i], {"."})]

\* Mutant: the function swallows every exception, not only CalledProcessError.
SoaForDomainWithDnsServerCatchAll(outcome) ==
    IF outcome.raised = NoError
    THEN [raised |-> NoError, value |-> Strip(outcome.output)]
    ELSE [raised |-> NoError, value |-> <<>>]

SoaForDomainWithDnsServer(outcome) ==
    IF outcome.raised = NoError
    THEN [raised |-> NoError, value |-> Strip(outcome.output)]
    ELSE IF IsInstance(outcome.raised, "CalledProcessError")
    THEN [raised |-> NoError, value |-> <<>>]
    ELSE [raised |-> outcome.raised, value |-> <<>>]

\* Mutant: a hidden primary that is also advertised is queried once.
AllNameserversUnique(ns, hidden) ==
    LET NotAdvertised(h) == \A i \in 1..Len(ns) : ns[i] # h
    IN  ns \o SelectSeq(hidden, NotAdvertised)

AllNameservers(ns, hidden) == ns \o hidden

NoNameserverMessage(domain) ==
    <<"No nameserver for domain \"">> \o domain \o <<"\", dns is unavailable.">>

\* Mutant: the emptiness test looks at the combined list.
NameserversListedCombined(domain, ns, hidden) ==
    IF Len(ns \o hidden) = 0
    THEN [pc |-> "done", all_nameservers |-> <<>>,
          result |-> <<CRITICAL, NoNameserverMessage(domain)>>]
    ELSE [pc |-> "soa", all_nameservers |-> ns \o hidden, result |-> NoResult]

\* lines 95-98: what follows the listing of the nameservers
NameserversListed(domain, ns, hidden) ==
    IF Len(ns) = 0
    THEN [pc |-> "done", all_nameservers |-> <<>>,
          result |-> <<CRITICAL, NoNameserverMessage(domain)>>]
    ELSE [pc |-> "soa", all_nameservers |-> AllNameservers(ns, hidden),
          result |-> NoResult]

\* Mutant: a hostname that failed twice is listed once.
RECURSIVE EmptyResponseServersUnique(_, _)
EmptyResponseServersUnique(servers, records) ==
    IF records = <<>> THEN <<>>
    ELSE LET rest == EmptyResponseServersUnique(Tail(servers), Tail(records))
         IN  IF 0 = Len(Head(records))
                    /\ \A i \in 1..Len(rest) : rest[i] # Head(servers)
             THEN <<Head(servers)>> \o rest
             ELSE rest

RECURSIVE EmptyResponseServers(_, _)
EmptyResponseServers(servers, records) ==
    IF records = <<>> THEN <<>>
    ELSE (IF 0 = Len(Head(records)) THEN <<Head(servers)>> ELSE <<>>)
             \o EmptyResponseServers(Tail(servers), Tail(records))

AreAllSoasEqual(records) ==
    \A i \in 1..Len(records) : records[i] = records[1]

EmptyResponseMessage(servers, domain) ==
    <<"Nameserver(s) ">> \o ReprList(servers)
        \o <<" did not return SOA record for domain \"">> \o domain \o <<"\"">>

DoNotAgreeMessage(domain, records) ==
    <<"Nameservers do not agree for domain \"">> \o domain \o <<"\" ">>
        \o ReprList(records)

LessThanMessage(critical, domain, ns) ==
    <<"Less than ">> \o FormatD(critical) \o <<" nameservers for domain \"">>
        \o domain \o <<"\", only ">> \o FormatD(Len(ns)) \o <<" available. ">>
        \o ReprList(ns)

ExpectedAtLeastMessage(warning, domain, ns) ==
    <<"Expected at least ">> \o FormatD(warning) \o <<" nameservers for domain \"">>
        \o domain \o <<"\", but only found ">> \o FormatD(Len(ns)) \o <<" - ">>
        \o ReprList(ns)

\* Mutant: the handler catches CalledProcessError only.
ExceptCalledProcessError(e) == IsInstance(e, "CalledProcessError")

\* except Exception as error: (line 105)
ExceptException(e) == IsInstance(e, "Exception")

\* Mutant: the handler reports UNKNOWN.
ErrorResultUnknown(e) == <<UNKNOWN, ReprError(e)>>

ErrorResult(e) == <<WARNING, ReprError(e)>>

\* Mutant: the critical boundary is inclusive.
BelowCriticalInclusive(ns, critical) == Len(ns) <= critical

BelowCritical(ns, critical) == Len(ns) < critical

\* Mutant: the warning boundary is inclusive.
BelowWarningInclusive(ns, warning) == Len(ns) <= warning

BelowWarning(ns, warning) == Len(ns) < warning

\* Mutant: the nameserver count is tested before the agreement of the records.
AfterTryCountFirst(domain, ns, records, are_all_soas_equal, warning, critical) ==
    IF Len(ns) < critical
    THEN <<CRITICAL, LessThanMessage(critical, domain, ns)>>
    ELSE IF ~are_all_soas_equal
    THEN <<CRITICAL, DoNotAgreeMessage(domain, records)>>
    ELSE IF Len(ns) < warning
    THEN <<WARNING, ExpectedAtLeastMessage(warning, domain, ns)>>
    ELSE <<OK, records[1]>>

\* lines 110-119, after the try block
AfterTry(domain, ns, records, are_all_soas_equal, warning, critical) ==
    IF ~are_all_soas_equal
    THEN <<CRITICAL, DoNotAgreeMessage(domain, records)>>
    ELSE IF BelowCritical(ns, critical)
    THEN <<CRITICAL, LessThanMessage(critical, domain, ns)>>
    ELSE IF BelowWarning(ns, warning)
    THEN <<WARNING, ExpectedAtLeastMessage(warning, domain, ns)>>
    ELSE <<OK, records[1]>>

\* Mutant: the hidden primaries count towards the thresholds.
EvaluateCountingHidden(domain, ns, all_ns, records, warning, critical) ==
    LET empty_response_servers == EmptyResponseServers(all_ns, records)
    IN  IF Len(empty_response_servers) >= 1
        THEN <<CRITICAL, EmptyResponseMessage(empty_response_servers, domain)>>
        ELSE AfterTry(domain, all_ns, records, AreAllSoasEqual(records), warning, critical)

\* lines 100-119, once every SOA query has been answered
Evaluate(domain, ns, all_ns, records, warning, critical) ==
    LET empty_response_servers == EmptyResponseServers(all_ns, records)
    IN  IF Len(empty_response_servers) >= 1
        THEN <<CRITICAL, EmptyResponseMessage(empty_response_servers, domain)>>
        ELSE AfterTry(domain, ns, records, AreAllSoasEqual(records), warning, critical)

-----------------------------------------------------------------------------
(* One run of check_soas_equal_for_domain *)

Init ==
    /\ domain_name \in Domains
    /\ warning_minimum_nameservers \in 1..MaxThreshold
    /\ critical_minimum_nameservers \in 1..MaxThreshold
    /\ hidden_primaries \in SeqsUpTo(HiddenHosts, MaxHidden)
    /\ pc = "nameservers"
    /\ nameservers = <<>>
    /\ all_nameservers = <<>>
    /\ soa_records = <<>>
    /\ commands = <<>>
    /\ soa_outcomes = <<>>
    /\ error = NoError
    /\ result = NoResult

Args == <<domain_name, warning_minimum_nameservers, critical_minimum_nameservers,
          hidden_primaries>>

\* An exception reaches the try block of check_soas_equal_for_domain.
Raise(e) ==
    /\ error' = e
    /\ IF ExceptException(e)
       THEN pc' = "done" /\ result' = ErrorResult(e)
       ELSE pc' = "raised" /\ result' = NoResult

\* line 94: the NS query returns; lines 95-98
ListNameservers ==
    /\ pc = "nameservers"
    /\ \E outcome \in CheckOutput(NsCommand(domain_name)) :
          /\ outcome.raised = NoError
          /\ LET ns == NameserversForDomain(outcome.output)
                 listed == NameserversListed(domain_name, ns, hidden_primaries)
             IN  /\ nameservers' = ns
                 /\ pc' = listed.pc
                 /\ result' = listed.result
                 /\ all_nameservers' = listed.all_nameservers
    /\ commands' = Append(commands, NsCommand(domain_name))
    /\ UNCHANGED <<Args, soa_records, soa_outcomes, error>>

\* line 94: the NS query raises
ListNameserversFails ==
    /\ pc = "nameservers"
    /\ \E outcome \in CheckOutput(NsCommand(domain_name)) :
          /\ outcome.raised # NoError
          /\ Raise(outcome.raised)
    /\ commands' = Append(commands, NsCommand(domain_name))
    /\ UNCHANGED <<Args, nameservers, all_nameservers, soa_records, soa_outcomes>>

\* line 99: map() calls soa_for_domain_with_dns_server for the next server
QuerySoa ==
    /\ pc = "soa"
    /\ Len(soa_records) < Len(all_nameservers)
    /\ LET command == SoaCommand(domain_name, all_nameservers[Len(soa_records) + 1])
       IN  /\ commands' = Append(commands, command)
           /\ \E outcome \in CheckOutput(command) :
                 LET soa == SoaForDomainWithDnsServer(outcome)
                 IN  /\ soa_outcomes' = Append(soa_outcomes, outcome)
                     /\ IF soa.raised = NoError
                        THEN /\ soa_records' = Append(soa_records, soa.value)
                             /\ UNCHANGED <<pc, error, result>>
                        ELSE /\ Raise(soa.raised)
                             /\ UNCHANGED soa_records
    /\ UNCHANGED <<Args, nameservers, all_nameservers>>

\* lines 100-119: every query has been answered
Decide ==
    /\ pc = "soa"
    /\ Len(soa_records) = Len(all_nameservers)
    /\ pc' = "done"
    /\ result' = Evaluate(domain_name, nameservers, all_nameservers, soa_records,
                          warning_minimum_nameservers, critical_minimum_nameservers)
    /\ UNCHANGED <<Args, nameservers, all_nameservers, soa_records, commands,
                   soa_outcomes, error>>

Next ==
    \/ ListNameservers
    \/ ListNameserversFails
    \/ QuerySoa
    \/ Decide

Spec == Init /\ [][Next]_vars

\* The interpreter runs the function to its end: every step that can be taken is taken.
FairSpec == Spec /\ WF_vars(Next)

-----------------------------------------------------------------------------
(* Vocabulary of the properties *)

Done == pc = "done"

\* advertised-then-hidden
Combined == nameservers \o hidden_primaries

IsPrefix(a, b) == Len(a) <= Len(b) /\ \A i \in 1..Len(a) : a[i] = b[i]

IsBlank(output) == \A i \in 1..Len(output) : output[i] \in {" ", "\n", "\t"}

\* dig exited non-zero
DigFailed(o) == o.raised # NoError /\ o.raised.cls = "CalledProcessError"

\* an empty or failed SOA result
NoAnswer(o) == DigFailed(o) \/ (o.raised = NoError /\ IsBlank(o.output))

\* an error other than a non-zero dig exit
Unexpected(o) == o.raised # NoError /\ o.raised.cls # "CalledProcessError"

\* every SOA query of the run came back with an answer, a blank or a dig failure
NoUnexpectedError == \A i \in 1..Len(soa_outcomes) : ~Unexpected(soa_outcomes[i])

\* the run listed at least one nameserver, queried them all and took its decision
Decided ==
    Done /\ nameservers # <<>> /\ NoUnexpectedError
         /\ Len(soa_outcomes) = Len(Combined)

\* the SOA string each query returned, in the order of the queries
Answers ==
    [i \in 1..Len(soa_outcomes) |->
        IF NoAnswer(soa_outcomes[i]) THEN <<>>
        ELSE RStrip(LStrip(soa_outcomes[i].output), {" ", "\n", "\t"})]

\* every query returned the same non-empty string
AllAnswersAgree ==
    \A i \in 1..Len(Answers) : Answers[i] # <<>> /\ Answers[i] = Answers[1]

RECURSIVE HostsWithoutAnswer(_, _)
HostsWithoutAnswer(hosts, outcomes) ==
    IF outcomes = <<>> \/ hosts = <<>> THEN <<>>
    ELSE (IF NoAnswer(Head(outcomes)) THEN <<Head(hosts)>> ELSE <<>>)
             \o HostsWithoutAnswer(Tail(hosts), Tail(outcomes))

LessThanText ==
    <<"Less than ">> \o FormatD(critical_minimum_nameservers)
        \o <<" nameservers for domain \"">> \o domain_name \o <<"\", only ">>
        \o FormatD(Len(nameservers)) \o <<" available. ">> \o ReprList(nameservers)

ExpectedAtLeastText ==
    <<"Expected at least ">> \o FormatD(warning_minimum_nameservers)
        \o <<" nameservers for domain \"">> \o domain_name
        \o <<"\", but only found ">> \o FormatD(Len(nameservers)) \o <<" - ">>
        \o ReprList(nameservers)

-----------------------------------------------------------------------------
\* C1: when every query of the run is answered and some queried hostname gives
\* an empty or whitespace-only output or dig exits non-zero, the result is
\* CRITICAL and names exactly the hostnames without an answer, in combined
\* order with duplicates kept, whatever the other answers and the thresholds.
C1_MissingAnswerIsCritical ==
    (Done /\ NoUnexpectedError
          /\ \E i \in 1..Len(soa_outcomes) : NoAnswer(soa_outcomes[i]))
    => result = <<CRITICAL,
                  <<"Nameserver(s) ">>
                      \o ReprList(HostsWithoutAnswer(Combined, soa_outcomes))
                      \o <<" did not return SOA record for domain \"">>
                      \o domain_name \o <<"\"">> >>

\* C1 witness: a dig failure and a blank output on the same hostname, once
\* advertised and once hidden, while another server answers.
C1_Witness ==
    /\ Decided
    /\ Len(Combined) = 3
    /\ Combined[1] = Combined[3] /\ Combined[1] # Combined[2]
    /\ DigFailed(soa_outcomes[1])
    /\ ~NoAnswer(soa_outcomes[2])
    /\ soa_outcomes[3].raised = NoError /\ soa_outcomes[3].output = <<"\n">>
    /\ result[1] = CRITICAL

\* C2 as stated: identical non-empty answers and len(advertised) >= warning
\* give (OK, S) for every value of the critical threshold.
C2_OkForEveryCritical ==
    (Decided /\ AllAnswersAgree
             /\ Len(nameservers) >= warning_minimum_nameservers)
    => result = <<OK, Answers[1]>>

\* C2 amended: identical non-empty answers, len(advertised) >= warning and
\* len(advertised) >= critical give (OK, S).
C2_OkWhenBothThresholdsMet ==
    (Decided /\ AllAnswersAgree
             /\ Len(nameservers) >= warning_minimum_nameservers
             /\ Len(nameservers) >= critical_minimum_nameservers)
    => result = <<OK, Answers[1]>>

\* C2 witness: OK with the count exactly at both thresholds and a hidden
\* primary agreeing.
C2_Witness ==
    /\ Decided /\ AllAnswersAgree
    /\ hidden_primaries # <<>>
    /\ Len(nameservers) = warning_minimum_nameservers
    /\ Len(nameservers) = critical_minimum_nameservers
    /\ result = <<OK, Soa1>>

\* C3: when the listing returns no nameserver the result is CRITICAL with the
\* "No nameserver" message, whatever the hidden primaries and the thresholds.
C3_NoNameserverIsCritical ==
    (Done /\ error = NoError /\ nameservers = <<>>)
    => result = <<CRITICAL,
                  <<"No nameserver for domain \"">> \o domain_name
                      \o <<"\", dns is unavailable.">> >>

\* C3 witness: no advertised nameserver while a hidden primary is configured.
C3_Witness ==
    /\ Done /\ error = NoError /\ nameservers = <<>>
    /\ hidden_primaries # <<>>
    /\ warning_minimum_nameservers < critical_minimum_nameservers
    /\ result[1] = CRITICAL

\* C4: when every query returns a non-empty answer and two answers differ, the
\* result is CRITICAL with the "do not agree" message listing every answer in
\* combined order, also when the count is below the critical threshold.
C4_DisagreementIsCritical ==
    (Decided /\ (\A i \in 1..Len(Answers) : Answers[i] # <<>>)
             /\ (\E i, j \in 1..Len(Answers) : Answers[i] # Answers[j]))
    => result = <<CRITICAL,
                  <<"Nameservers do not agree for domain \"">> \o domain_name
                      \o <<"\" ">> \o ReprList(Answers)>>

\* C4 witness: the hidden primary disagrees with the only advertised server,
\* and the count is below both thresholds.
C4_Witness ==
    /\ Decided
    /\ Len(nameservers) = 1 /\ Len(hidden_primaries) = 1
    /\ Answers = <<Soa1, Soa2>>
    /\ Len(nameservers) < critical_minimum_nameservers
    /\ Len(nameservers) < warning_minimum_nameservers
    /\ result[1] = CRITICAL

\* C5: when all answers agree, the result is the "Less than" CRITICAL exactly
\* when len(advertised) < critical, and the "Expected at least" WARNING exactly
\* when critical <= len(advertised) < warning.
C5_ThresholdRule ==
    (Decided /\ AllAnswersAgree)
    => /\ (result = <<CRITICAL, LessThanText>>)
              <=> (Len(nameservers) < critical_minimum_nameservers)
       /\ (result = <<WARNING, ExpectedAtLeastText>>)
              <=> (/\ critical_minimum_nameservers <= Len(nameservers)
                   /\ Len(nameservers) < warning_minimum_nameservers)

\* C5 witness: the count equals the critical threshold and is below the
\* warning threshold, so the result is the WARNING.
C5_Witness ==
    /\ Decided /\ AllAnswersAgree
    /\ Len(nameservers) = critical_minimum_nameservers
    /\ Len(nameservers) < warning_minimum_nameservers
    /\ result = <<WARNING, ExpectedAtLeastText>>

\* C6: when the advertised servers and the hidden primaries all return the same
\* non-empty answer, the result is the result of the same run without hidden
\* primaries.
C6_HiddenPrimariesDoNotCount ==
    (Decided /\ AllAnswersAgree)
    => result = Evaluate(domain_name, nameservers, nameservers,
                         SubSeq(Answers, 1, Len(nameservers)),
                         warning_minimum_nameservers,
                         critical_minimum_nameservers)

\* C6 witness: counting the hidden primary would reach the warning threshold.
C6_Witness ==
    /\ Decided /\ AllAnswersAgree
    /\ hidden_primaries # <<>>
    /\ Len(nameservers) < warning_minimum_nameservers
    /\ Len(Combined) >= warning_minimum_nameservers
    /\ critical_minimum_nameservers <= Len(nameservers)
    /\ result[1] = WARNING

\* C7: an error raised by the listing, or an error other than a non-zero dig
\* exit raised by an SOA query, never leaves the function and ends the run with
\* (WARNING, repr of the error).
C7_UnexpectedErrorIsWarning ==
    /\ pc # "raised"
    /\ error # NoError => (Done /\ result = <<WARNING, ReprError(error)>>)
    /\ \A i \in 1..Len(soa_outcomes) :
          Unexpected(soa_outcomes[i])
              => (Done /\ result = <<WARNING, ReprError(soa_outcomes[i].raised)>>)

\* C7 witness: the second SOA query raises AssertionError('fnord').
C7_Witness ==
    /\ Done
    /\ Len(soa_outcomes) = 2
    /\ soa_outcomes[2].raised = AssertionError
    /\ result = <<WARNING, <<"AssertionError", "(", "'", "fnord", "'", ",)">> >>

\* C8: every run ends, having returned exactly one (status, message) pair with
\* status OK, WARNING or CRITICAL, and no exception leaves the function: a run
\* that has not returned can take a step, every step issues a command or
\* returns, no more than one command per entry of advertised ++ hidden follows
\* the listing, and a run that has returned holds one pair.
Progress == Len(commands) + (IF Done THEN 1 ELSE 0)

ReturnedOnePair ==
    /\ Len(result) = 2
    /\ result[1] \in {OK, WARNING, CRITICAL}
    /\ result[2] # <<>>

\* the run is at the listing, at an SOA query or at the decision
CanStep ==
    \/ pc = "nameservers"
    \/ pc = "soa" /\ Len(soa_records) <= Len(all_nameservers)

C8_AlwaysReturnsOnePair ==
    /\ [](IF Done THEN ReturnedOnePair ELSE result = NoResult /\ CanStep)
    /\ [][/\ Progress' > Progress
           /\ Progress' <= 2 + Len(Combined')]_vars

\* C8 witness: a run with the thresholds in reverse order and a mix of empty
\* and non-empty answers has returned.
C8_Witness ==
    /\ Decided
    /\ warning_minimum_nameservers < critical_minimum_nameservers
    /\ \E i, j \in 1..Len(soa_outcomes) :
          NoAnswer(soa_outcomes[i]) /\ ~NoAnswer(soa_outcomes[j])
    /\ Len(result) = 2

\* C9: the SOA queries are issued one per entry of advertised ++ hidden, in
\* that order and without deduplication; the decision is taken only when all
\* of them have been issued; none is issued when no nameserver is advertised.
SoaCommands == SubSeq(commands, 2, Len(commands))

ExpectedSoaCommands ==
    [i \in 1..Len(Combined) |->
        <<<<"dig">>, <<"+short">>, <<"SOA">>, domain_name, <<"@">> \o Combined[i]>>]

C9_QueriesInCombinedOrder ==
    /\ IsPrefix(SoaCommands, ExpectedSoaCommands)
    /\ Len(soa_outcomes) = Len(SoaCommands)
    /\ (Done /\ error = NoError /\ nameservers # <<>>)
           => SoaCommands = ExpectedSoaCommands
    /\ pc = "soa" => result = NoResult
    /\ nameservers = <<>> => SoaCommands = <<>>

\* C9 witness: the first server gives no answer, the same hostname is queried
\* again as hidden primary, and three queries were issued.
C9_Witness ==
    /\ Decided
    /\ Len(SoaCommands) = 3
    /\ SoaCommands[1] = SoaCommands[3]
    /\ NoAnswer(soa_outcomes[1])

\* C10: an unexpected error of an SOA query ends the queries and gives
\* (WARNING, repr of the error) even after an empty answer; a non-zero dig exit
\* of the listing gives WARNING, not the "No nameserver" CRITICAL.
C10_ErrorBeforeMissingAnswer ==
    /\ \A i \in 1..Len(soa_outcomes) :
          Unexpected(soa_outcomes[i])
              => /\ i = Len(soa_outcomes)
                 /\ Len(commands) = 1 + i
                 /\ Done
                 /\ result = <<WARNING, ReprError(soa_outcomes[i].raised)>>
    /\ (error # NoError /\ error.cls = "CalledProcessError")
           => /\ Done
              /\ Len(commands) = 1
              /\ result = <<WARNING,
                            <<"CalledProcessError", "(", "9", ", ">>
                                \o ReprList(<<<<"dig">>, <<"+short">>, <<"NS">>,
                                              domain_name>>)
                                \o <<")">> >>

\* C10 witness: the first server gives no answer, the second query raises, and
\* the third server is never queried.
C10_Witness ==
    /\ Done
    /\ Len(Combined) = 3
    /\ Len(soa_outcomes) = 2
    /\ NoAnswer(soa_outcomes[1])
    /\ Unexpected(soa_outcomes[2])
    /\ result[1] = WARNING

====
